---- MODULE Spec2Model ----
(***************************************************************************)
(* Model of build_swift/wrappers/cmake.py: the truthy/falsey classifier,   *)
(* the value wrappers, CMakeValueType, CMakeCacheEntry and CMakeCache,     *)
(* and of _diff_namespaces in preset_utils.py.                             *)
(*                                                                         *)
(* Python values are records [k |-> kind, v |-> payload]; text is a        *)
(* sequence of one-character strings, so that upper(), endswith(), int()    *)
(* and str.format() are computed character by character.                   *)
(***************************************************************************)
EXTENDS Integers, Sequences, FiniteSets, TLC

VARIABLES
    cache,  \* CMakeCache._entries of the container under test (an OrderedDict)
    call,   \* the call being made / last made: [op, ...arguments]
    ret,    \* its outcome: [err |-> "none" | exception name, val |-> result]
    heap    \* the other live CMakeCache objects: [objs |-> each object's
            \* _entries, result |-> the object the last a + b returned]

vars == <<cache, call, ret, heap>>

\* ------------------------------------------------------------------------
\* Bounds

MaxTextLen == 3     \* longest enumerated classifier input text
MaxListLen == 2     \* longest enumerated list value
MaxOther == 2       \* most set() calls used to build a merge operand
MaxNameLen == 4     \* longest enumerated type name given to from_name

\* ------------------------------------------------------------------------
\* Python values

Str(s) == [k |-> "str", v |-> s]
Int_(n) == [k |-> "int", v |-> n]
Bool_(b) == [k |-> "bool", v |-> b]
Float_(w, f) == [k |-> "float", v |-> <<w, f>>]   \* the float w.f
List_(l) == [k |-> "list", v |-> l]
None == [k |-> "none", v |-> <<>>]

Ok(v) == [err |-> "none", val |-> v]
Raise(e, why) == [err |-> e, val |-> why]   \* exception e with its message
Pending == [err |-> "pending", val |-> None]

Digits == <<"0", "1", "2", "3", "4", "5", "6", "7", "8", "9">>
LowerCase == <<"a", "b", "c", "d", "e", "f", "g", "h", "i", "j", "k", "l", "m",
               "n", "o", "p", "q", "r", "s", "t", "u", "v", "w", "x", "y", "z">>
UpperCase == <<"A", "B", "C", "D", "E", "F", "G", "H", "I", "J", "K", "L", "M",
               "N", "O", "P", "Q", "R", "S", "T", "U", "V", "W", "X", "Y", "Z">>

RECURSIVE NatText(_)
NatText(n) ==
    IF n < 10 THEN <<Digits[n + 1]>>
    ELSE NatText(n \div 10) \o <<Digits[(n % 10) + 1]>>

IntText(n) == IF n < 0 THEN <<"-">> \o NatText(-n) ELSE NatText(n)

\* text_type with a null value rendered as the empty text
text_type_NoneEmpty(x) ==
    CASE x.k = "str" -> x.v
      [] x.k = "int" -> IntText(x.v)
      [] x.k = "bool" -> IF x.v THEN <<"T", "r", "u", "e">>
                         ELSE <<"F", "a", "l", "s", "e">>
      [] x.k = "float" -> IntText(x.v[1]) \o <<".">> \o NatText(x.v[2])
      [] x.k = "none" -> <<>>

\* six.text_type(value) for the scalar kinds
text_type(x) ==
    CASE x.k = "str" -> x.v
      [] x.k = "int" -> IntText(x.v)
      [] x.k = "bool" -> IF x.v THEN <<"T", "r", "u", "e">>
                         ELSE <<"F", "a", "l", "s", "e">>
      [] x.k = "float" -> IntText(x.v[1]) \o <<".">> \o NatText(x.v[2])
      [] x.k = "none" -> <<"N", "o", "n", "e">>

upper_char(c) ==
    IF \E i \in 1..26 : LowerCase[i] = c
    THEN UpperCase[CHOOSE i \in 1..26 : LowerCase[i] = c]
    ELSE c

RECURSIVE upper(_)
upper(s) == IF s = <<>> THEN <<>> ELSE <<upper_char(Head(s))>> \o upper(Tail(s))

endswith(s, suffix) ==
    /\ Len(s) >= Len(suffix)
    /\ SubSeq(s, Len(s) - Len(suffix) + 1, Len(s)) = suffix

\* int(text): surrounding whitespace is stripped, one optional sign, then
\* one or more decimal digits; anything else raises ValueError.
RECURSIVE lstrip(_)
lstrip(s) == IF s # <<>> /\ Head(s) = " " THEN lstrip(Tail(s)) ELSE s

RECURSIVE rstrip(_)
rstrip(s) ==
    IF s # <<>> /\ s[Len(s)] = " " THEN rstrip(SubSeq(s, 1, Len(s) - 1)) ELSE s

Range09 == {"0", "1", "2", "3", "4", "5", "6", "7", "8", "9"}

IsDigit(c) == \E i \in 1..10 : Digits[i] = c
DigitVal(c) == (CHOOSE i \in 1..10 : Digits[i] = c) - 1

RECURSIVE NatOf(_)
NatOf(d) ==
    IF d = <<>> THEN 0
    ELSE NatOf(SubSeq(d, 1, Len(d) - 1)) * 10 + DigitVal(d[Len(d)])

py_int(s) ==
    LET t == rstrip(lstrip(s))
        signed == t # <<>> /\ Head(t) \in {"+", "-"}
        body == IF signed THEN Tail(t) ELSE t
    IN  IF body # <<>> /\ \A i \in 1..Len(body) : IsDigit(body[i])
        THEN Ok(IF signed /\ Head(t) = "-" THEN 0 - NatOf(body) ELSE NatOf(body))
        ELSE Raise("ValueError", "invalid literal for int()")

\* ------------------------------------------------------------------------
\* Constants (cmake.py:40-43)

_TRUTHY_VALUES == << <<"T", "R", "U", "E">>, <<"O", "N">>, <<"Y", "E", "S">>, <<"Y">> >>
_FALSEY_VALUES == << <<"0">>, <<"F", "A", "L", "S", "E">>, <<"O", "F", "F">>,
                     <<"N", "O">>, <<"N">>, <<"I", "G", "N", "O", "R", "E">>,
                     <<"N", "O", "T", "F", "O", "U", "N", "D">> >>
_NOTFOUND_SUFFIX == <<"-", "N", "O", "T", "F", "O", "U", "N", "D">>

In(x, list) == \E i \in 1..Len(list) : list[i] = x

\* ------------------------------------------------------------------------
\* Helpers (cmake.py:54-88)

\* _is_truthy without its integer branch
_is_truthy_NoInt(value) == In(upper(text_type(value)), _TRUTHY_VALUES)

\* _is_truthy taking every integer text as true, zero included
_is_truthy_AnyInt(value) ==
    LET v == upper(text_type(value))
    IN  In(v, _TRUTHY_VALUES) \/ py_int(v).err = "none"

_is_truthy(value) ==
    LET v == upper(text_type(value))
    IN  IF In(v, _TRUTHY_VALUES) THEN TRUE
        ELSE IF py_int(v).err = "none" THEN py_int(v).val # 0
        ELSE FALSE

_is_falsey(value) ==
    LET v == upper(text_type(value))
    IN  v = <<>> \/ In(v, _FALSEY_VALUES) \/ endswith(v, _NOTFOUND_SUFFIX)

_cmake_bool(value) ==
    IF _is_truthy(value) THEN Ok(TRUE)
    ELSE IF _is_falsey(value) THEN Ok(FALSE)
    ELSE Raise("ValueError", "Invalid bool value")

\* ------------------------------------------------------------------------
\* Python's == on the modelled values: numbers (bool, int, float) compare by
\* numeric value across kinds, text by content, lists element by element.

NumKinds == {"bool", "int", "float"}

NumVal(x) ==
    CASE x.k = "bool" -> <<IF x.v THEN 1 ELSE 0, 0>>
      [] x.k = "int" -> <<x.v, 0>>
      [] x.k = "float" -> x.v

RECURSIVE PyEq(_, _)
PyEq(x, y) ==
    IF x.k \in NumKinds /\ y.k \in NumKinds THEN NumVal(x) = NumVal(y)
    ELSE IF x.k # y.k THEN FALSE
    ELSE IF x.k = "list"
         THEN /\ Len(x.v) = Len(y.v)
              /\ \A i \in 1..Len(x.v) : PyEq(x.v[i], y.v[i])
    ELSE x.v = y.v

\* ------------------------------------------------------------------------
\* Value wrappers (cmake.py:91-142): [cls |-> class name, value |-> value]

_ValueWrapper(value) == Ok([cls |-> "_ValueWrapper", value |-> value])

_BoolWrapper(value) ==
    LET b == _cmake_bool(value)
    IN  IF b.err = "none" THEN Ok([cls |-> "_BoolWrapper", value |-> Bool_(b.val)])
        ELSE b

_ListWrapper(value) ==
    IF value.k # "list" THEN Raise("ValueError", "Invalid list value")
    ELSE Ok([cls |-> "_ListWrapper", value |-> value])

\* isinstance(obj, cls) for the wrapper classes: _BoolWrapper and
\* _ListWrapper both derive from _ValueWrapper.
isinstance(obj, cls) == obj.cls = cls \/ cls = "_ValueWrapper"

NotImplemented == [ni |-> TRUE, val |-> FALSE]
Answer(b) == [ni |-> FALSE, val |-> b]

\* _ValueWrapper.__eq__(self, other), inherited by both subclasses
Wrapper__eq__(self, other) ==
    IF ~isinstance(other, self.cls) THEN NotImplemented
    ELSE Answer(PyEq(self.value, other.value))

\* a == b on two distinct wrapper objects: the right operand's __eq__ goes
\* first when its class is a proper subclass of the left one's; when both
\* sides answer NotImplemented the comparison falls back to identity.
Wrapper_equals(a, b) ==
    LET reflected == b.cls # a.cls /\ isinstance(b, a.cls)
        first == IF reflected THEN Wrapper__eq__(b, a) ELSE Wrapper__eq__(a, b)
        second == IF reflected THEN Wrapper__eq__(a, b) ELSE Wrapper__eq__(b, a)
    IN  IF ~first.ni THEN first.val
        ELSE IF ~second.ni THEN second.val
        ELSE FALSE

RECURSIVE join(_, _)
join(sep, items) ==
    IF items = <<>> THEN <<>>
    ELSE IF Len(items) = 1 THEN items[1]
    ELSE items[1] \o sep \o join(sep, Tail(items))

\* _BoolWrapper.__str__ without the upper()
Wrapper__str__NoUpper(w) ==
    IF w.cls = "_ListWrapper"
    THEN join(<<";">>, [i \in 1..Len(w.value.v) |-> text_type(w.value.v[i])])
    ELSE text_type(w.value)

\* __str__ of the three wrapper classes
Wrapper__str__(w) ==
    CASE w.cls = "_BoolWrapper" -> upper(text_type(w.value))
      [] w.cls = "_ListWrapper" ->
            join(<<";">>, [i \in 1..Len(w.value.v) |-> text_type(w.value.v[i])])
      [] w.cls = "_ValueWrapper" -> text_type(w.value)

\* ------------------------------------------------------------------------
\* CMake value types (cmake.py:149-201)

Member(name) == [k |-> "vtype", v |-> name]

VT_BOOL == Member(<<"B", "O", "O", "L">>)
VT_FILEPATH == Member(<<"F", "I", "L", "E", "P", "A", "T", "H">>)
VT_PATH == Member(<<"P", "A", "T", "H">>)
VT_STRING == Member(<<"S", "T", "R", "I", "N", "G">>)
VT_INTERNAL == Member(<<"I", "N", "T", "E", "R", "N", "A", "L">>)

__members__ == <<VT_BOOL, VT_FILEPATH, VT_PATH, VT_STRING, VT_INTERNAL>>

\* CMakeValueType.__eq__ behind ==: NotImplemented (hence unequal) unless
\* both operands are members
ValueType_equals(a, b) == a.k = "vtype" /\ b.k = "vtype" /\ a.v = b.v

\* from_name matching the tag whatever its case
from_name_AnyCase(name) ==
    IF name.k = "str" /\ \E i \in 1..Len(__members__) : __members__[i].v = upper(name.v)
    THEN Ok(__members__[CHOOSE i \in 1..Len(__members__) :
                __members__[i].v = upper(name.v)])
    ELSE Raise("ValueError", "Unknown value type")

from_name(name) ==
    IF \E i \in 1..Len(__members__) : Str(__members__[i].v) = name
    THEN Ok(__members__[CHOOSE i \in 1..Len(__members__) :
                /\ Str(__members__[i].v) = name
                /\ \A j \in 1..(i - 1) : Str(__members__[j].v) # name])
    ELSE Raise("ValueError", "Unknown value type")

\* ------------------------------------------------------------------------
\* CMakeCacheEntry (cmake.py:208-278)

\* __init__ with the list branch keeping the caller's value_type
CMakeCacheEntry_KeepType(name, value, value_type) ==
    IF name.k # "str" THEN Raise("ValueError", "Invalid name type")
    ELSE IF Len(name.v) < 1 THEN Raise("ValueError", "CMake variable names cannot be empty")
    ELSE
      LET isBool == value.k = "bool" \/ ValueType_equals(value_type, VT_BOOL)
          wrapper == IF value.k = "list" THEN _ListWrapper(value)
                     ELSE IF isBool THEN _BoolWrapper(value)
                     ELSE _ValueWrapper(value)
          vtype == IF value.k # "list" /\ isBool THEN VT_BOOL ELSE value_type
          resolved == IF vtype.k = "str" THEN from_name(vtype) ELSE Ok(vtype)
      IN  IF wrapper.err # "none" THEN wrapper
          ELSE IF resolved.err # "none" THEN resolved
          ELSE Ok([name |-> name, value_wrapper |-> wrapper.val,
                   value_type |-> resolved.val])

\* __init__ resolving a value_type given as text before the VT_BOOL test
CMakeCacheEntry_ResolveFirst(name, value, value_type) ==
    IF name.k # "str" THEN Raise("ValueError", "Invalid name type")
    ELSE IF Len(name.v) < 1 THEN Raise("ValueError", "CMake variable names cannot be empty")
    ELSE
      LET early == IF value_type.k = "str" /\ from_name(value_type).err = "none"
                   THEN from_name(value_type).val ELSE value_type
          isBool == value.k = "bool" \/ ValueType_equals(early, VT_BOOL)
          wrapper == IF value.k = "list" THEN _ListWrapper(value)
                     ELSE IF isBool THEN _BoolWrapper(value)
                     ELSE _ValueWrapper(value)
          vtype == IF value.k = "list" THEN VT_STRING
                   ELSE IF isBool THEN VT_BOOL
                   ELSE value_type
          resolved == IF vtype.k = "str" THEN from_name(vtype) ELSE Ok(vtype)
      IN  IF wrapper.err # "none" THEN wrapper
          ELSE IF resolved.err # "none" THEN resolved
          ELSE Ok([name |-> name, value_wrapper |-> wrapper.val,
                   value_type |-> resolved.val])

\* __init__(self, name, value, value_type=None)
CMakeCacheEntry(name, value, value_type) ==
    IF name.k # "str" THEN Raise("ValueError", "Invalid name type")
    ELSE IF Len(name.v) < 1 THEN Raise("ValueError", "CMake variable names cannot be empty")
    ELSE
      LET isBool == value.k = "bool" \/ ValueType_equals(value_type, VT_BOOL)
          wrapper == IF value.k = "list" THEN _ListWrapper(value)
                     ELSE IF isBool THEN _BoolWrapper(value)
                     ELSE _ValueWrapper(value)
          vtype == IF value.k = "list" THEN VT_STRING
                   ELSE IF isBool THEN VT_BOOL
                   ELSE value_type
          resolved == IF vtype.k = "str" THEN from_name(vtype) ELSE Ok(vtype)
      IN  IF wrapper.err # "none" THEN wrapper
          ELSE IF resolved.err # "none" THEN resolved
          ELSE Ok([name |-> name, value_wrapper |-> wrapper.val,
                   value_type |-> resolved.val])

\* CMakeCacheEntry.__str__
Entry__str__(entry) ==
    IF entry.value_type.k = "none"
    THEN entry.name.v \o <<"=">> \o Wrapper__str__(entry.value_wrapper)
    ELSE entry.name.v \o <<":">> \o entry.value_type.v \o <<"=">>
            \o Wrapper__str__(entry.value_wrapper)

\* __eq__ behind ==: the (name, value wrapper, value type) keys compared as
\* tuples, item by item with ==; None equals only None
Entry_equals(a, b) ==
    /\ PyEq(a.name, b.name)
    /\ Wrapper_equals(a.value_wrapper, b.value_wrapper)
    /\ \/ a.value_type = None /\ b.value_type = None
       \/ ValueType_equals(a.value_type, b.value_type)

\* the name, value and value_type properties
Entry_name(entry) == entry.name
Entry_value(entry) == entry.value_wrapper.value
Entry_value_type(entry) == entry.value_type

\* ------------------------------------------------------------------------
\* OrderedDict, the type of CMakeCache._entries: a sequence of
\* [key, val] items with distinct keys, in iteration order.

od_has(od, key) == \E i \in 1..Len(od) : od[i].key = key
od_index(od, key) == CHOOSE i \in 1..Len(od) : od[i].key = key

od_remove(od, key) == SelectSeq(od, LAMBDA item : item.key # key)

\* d[key] = val that moves an existing key to the end
od_setitem_MoveToEnd(od, key, val) ==
    Append(od_remove(od, key), [key |-> key, val |-> val])

\* d[key] = val that appends whether or not the key exists
od_setitem_Append(od, key, val) == Append(od, [key |-> key, val |-> val])

\* d[key] = val: an existing key keeps its position, a new key is appended
od_setitem(od, key, val) ==
    IF od_has(od, key)
    THEN [od EXCEPT ![od_index(od, key)] = [key |-> key, val |-> val]]
    ELSE Append(od, [key |-> key, val |-> val])

\* d.pop(key) that removes the last item, as popitem() does
od_pop_Last(od, key) ==
    IF od_has(od, key)
    THEN [ret |-> Ok(od[Len(od)].val), entries |-> SubSeq(od, 1, Len(od) - 1)]
    ELSE [ret |-> Raise("KeyError", key), entries |-> od]

\* d.pop(key): KeyError when the key is absent
od_pop(od, key) ==
    IF od_has(od, key)
    THEN [ret |-> Ok(od[od_index(od, key)].val), entries |-> od_remove(od, key)]
    ELSE [ret |-> Raise("KeyError", key), entries |-> od]

\* d.get(key) that forgets the default
od_get_NoDefault(od, key, default) ==
    IF od_has(od, key) THEN od[od_index(od, key)].val ELSE None

\* d.get(key, default)
od_get(od, key, default) ==
    IF od_has(od, key) THEN od[od_index(od, key)].val ELSE default

\* d.values()
od_values(od) == [i \in 1..Len(od) |-> od[i].val]

\* d.update(other) that keeps the values d already has
RECURSIVE od_update_KeepOld(_, _)
od_update_KeepOld(od, other) ==
    IF other = <<>> THEN od
    ELSE od_update_KeepOld(
            IF od_has(od, Head(other).key) THEN od
            ELSE Append(od, Head(other)),
            Tail(other))

\* d.update(other) walking other from its last item to its first
RECURSIVE od_update_Reversed(_, _)
od_update_Reversed(od, other) ==
    IF other = <<>> THEN od
    ELSE od_update_Reversed(
            od_setitem(od, other[Len(other)].key, other[Len(other)].val),
            SubSeq(other, 1, Len(other) - 1))

\* d.update(other): d[key] = val for every item of other, in other's order
RECURSIVE od_update(_, _)
od_update(od, other) ==
    IF other = <<>> THEN od
    ELSE od_update(od_setitem(od, Head(other).key, Head(other).val), Tail(other))

\* ------------------------------------------------------------------------
\* CMakeCache (cmake.py:281-369).  Every method is an operator from the
\* _entries before the call to [ret, entries]: the outcome and the _entries
\* after it.

CacheObject(entries) == [k |-> "CMakeCache", v |-> entries]

\* set() that drops the stored entry when construction fails
CMakeCache_set_DropOnError(entries, name, value, value_type) ==
    LET entry == CMakeCacheEntry(name, value, value_type)
    IN  IF entry.err # "none" THEN [ret |-> entry, entries |-> od_remove(entries, name)]
        ELSE [ret |-> Ok(None), entries |-> od_setitem(entries, name, entry.val)]

\* set(self, name, value, value_type=None)
CMakeCache_set(entries, name, value, value_type) ==
    LET entry == CMakeCacheEntry(name, value, value_type)
    IN  IF entry.err # "none" THEN [ret |-> entry, entries |-> entries]
        ELSE [ret |-> Ok(None), entries |-> od_setitem(entries, name, entry.val)]

\* unset() that ignores a missing name
CMakeCache_unset_Lenient(entries, name) ==
    [ret |-> Ok(None), entries |-> od_remove(entries, name)]

\* unset(self, name)
CMakeCache_unset(entries, name) ==
    LET popped == od_pop(entries, name)
    IN  IF popped.ret.err # "none" THEN popped
        ELSE [ret |-> Ok(None), entries |-> popped.entries]

\* clear(self)
CMakeCache_clear(entries) == [ret |-> Ok(None), entries |-> <<>>]

\* get(self, name, default=None)
CMakeCache_get(entries, name, default) ==
    [ret |-> Ok(od_get(entries, name, default)), entries |-> entries]

\* __contains__ and __len__
CMakeCache_contains(entries, name) == od_has(entries, name)
CMakeCache_len(entries) == Len(entries)

\* the entries property, also what __iter__ walks
CMakeCache_entries(entries) == od_values(entries)

\* the args property
CMakeCache_args(entries) ==
    [i \in 1..Len(CMakeCache_entries(entries)) |->
        <<"-", "D">> \o Entry__str__(CMakeCache_entries(entries)[i])]

\* __iadd__ taking over other's entries in place of its own
CMakeCache_iadd_Assign(entries, other) ==
    IF other.k # "CMakeCache"
    THEN [ret |-> Raise("TypeError", "Invalid type"), entries |-> entries]
    ELSE [ret |-> Ok(None), entries |-> other.v]

\* __iadd__(self, other)
CMakeCache_iadd(entries, other) ==
    IF other.k # "CMakeCache"
    THEN [ret |-> Raise("TypeError", "Invalid type"), entries |-> entries]
    ELSE [ret |-> Ok(None), entries |-> od_update(entries, other.v)]

\* __add__(self, other): the new cache is returned, self is left alone
CMakeCache_add(entries, other) ==
    IF other.k # "CMakeCache"
    THEN [ret |-> Raise("TypeError", "Invalid type"), entries |-> entries]
    ELSE LET new_cache == CMakeCache_iadd(
                              CMakeCache_iadd(<<>>, CacheObject(entries)).entries,
                              other).entries
         IN  [ret |-> Ok(CacheObject(new_cache)), entries |-> entries]

\* The same two operators on objects: objs maps each live CMakeCache to its
\* _entries, self and other name two of them, and ret names the object the
\* call returns.

\* self += other
Cache__iadd__(objs, self, other) ==
    [objs |-> [objs EXCEPT ![self] =
                  CMakeCache_iadd(objs[self], CacheObject(objs[other])).entries],
     ret |-> self]

\* self + other done in place: self += other; return self
Cache__add__InPlace(objs, self, other) ==
    Cache__iadd__(objs, self, other)

\* self + other: new_cache is a fresh CMakeCache() that takes self's entries
\* and then other's
Cache__add__(objs, self, other) ==
    LET fresh == [objs EXCEPT !["new_cache"] = <<>>]
        first == Cache__iadd__(fresh, "new_cache", self).objs
    IN  [objs |-> Cache__iadd__(first, "new_cache", other).objs,
         ret |-> "new_cache"]

\* ------------------------------------------------------------------------
\* The container as a state machine: one cache, and calls drawn from small
\* sets of names, values, types and merge operands.

CacheNames == {Str(<<"A">>), Str(<<"B">>), Str(<<"C">>)}
BadNames == {Str(<<>>), None}
OtherNames == {Str(<<"B">>), Str(<<"C">>)}

\* <<value, value_type>> pairs that construct an entry
GoodSetInputs ==
    { <<Bool_(FALSE), None>>, <<Str(<<"F", "o", "o">>), None>>, <<Int_(42), None>>,
      <<List_(<<Str(<<"A">>), Str(<<"B">>), Str(<<"C">>)>>), None>> }

\* pairs that do not: an invalid boolean and an unknown type name
BadSetInputs ==
    { <<Str(<<"m", "a", "y", "b", "e">>), VT_BOOL>>,
      <<Str(<<"F", "o", "o">>), Str(<<"I", "N", "V", "A", "L", "I", "D">>)>> }

\* the pairs a merge operand is built from
OtherSetInputs ==
    { <<Str(<<"F", "o", "o">>), None>>,
      <<List_(<<Str(<<"A">>), Str(<<"B">>), Str(<<"C">>)>>), None>> }

RECURSIVE BuildCache(_)
BuildCache(ops) ==
    IF ops = <<>> THEN <<>>
    ELSE LET op == ops[Len(ops)]
         IN  CMakeCache_set(BuildCache(SubSeq(ops, 1, Len(ops) - 1)),
                            op[1], op[2][1], op[2][2]).entries

\* the caches that at most MaxOther set() calls build over OtherNames
OtherCaches ==
    {CacheObject(BuildCache(ops)) :
        ops \in UNION {[1..n -> OtherNames \X OtherSetInputs] : n \in 0..MaxOther}}

Defaults == {None, Str(<<"d">>)}

\* no other container is alive
NoHeap == [objs |-> <<>>, result |-> "none"]

Called(op, args, afterSet) == [op |-> op, args |-> args, afterSet |-> afterSet]

Init ==
    /\ cache = <<>>
    /\ call = Called("__init__", <<>>, FALSE)
    /\ ret = Ok(None)
    /\ heap = NoHeap

Set ==
    \E name \in CacheNames \cup BadNames, input \in GoodSetInputs \cup BadSetInputs :
        LET done == CMakeCache_set(cache, name, input[1], input[2])
        IN  /\ cache' = done.entries
            /\ ret' = done.ret
            /\ call' = Called("set", <<name, input[1], input[2]>>, FALSE)
            /\ UNCHANGED heap

\* afterSet records that the call right before was a successful set() of
\* the same name
Unset ==
    \E name \in CacheNames :
        LET done == CMakeCache_unset(cache, name)
        IN  /\ cache' = done.entries
            /\ ret' = done.ret
            /\ call' = Called("unset", <<name>>,
                              call.op = "set" /\ ret.err = "none" /\ call.args[1] = name)
            /\ UNCHANGED heap

Clear ==
    LET done == CMakeCache_clear(cache)
    IN  /\ cache' = done.entries
        /\ ret' = done.ret
        /\ call' = Called("clear", <<>>, FALSE)
        /\ UNCHANGED heap

Get ==
    \E name \in CacheNames, default \in Defaults :
        LET done == CMakeCache_get(cache, name, default)
        IN  /\ cache' = done.entries
            /\ ret' = done.ret
            /\ call' = Called("get", <<name, default>>, FALSE)
            /\ UNCHANGED heap

MergeInto ==
    \E other \in OtherCaches \cup {None} :
        LET done == CMakeCache_iadd(cache, other)
        IN  /\ cache' = done.entries
            /\ ret' = done.ret
            /\ call' = Called("__iadd__", <<other>>, FALSE)
            /\ UNCHANGED heap

Merge ==
    \E other \in OtherCaches \cup {None} :
        LET done == CMakeCache_add(cache, other)
        IN  /\ cache' = done.entries
            /\ ret' = done.ret
            /\ call' = Called("__add__", <<other>>, FALSE)
            /\ UNCHANGED heap

Next == Set \/ Unset \/ Clear \/ Get \/ MergeInto \/ Merge

Spec == Init /\ [][Next]_vars

\* ------------------------------------------------------------------------
\* Boolean coercion as a specification of its own: the input is drawn at
\* Init and CoerceBool applies _cmake_bool to it.

BoolAlphabet == {"0", "1", "-", "+", "N", "o", "y"}

Texts(alphabet, n) == UNION {[1..k -> alphabet] : k \in 0..n}

SampleTexts ==
    { <<"t", "r", "u", "e">>, <<"T", "r", "u", "e">>, <<"T", "R", "U", "E">>,
      <<"O", "n">>, <<"y", "e", "s">>, <<"Y", "E", "S">>, <<"2">>,
      <<"f", "a", "l", "s", "e">>, <<"F", "A", "L", "S", "E">>,
      <<"O", "f", "f">>, <<"O", "F", "F">>,
      <<"i", "g", "n", "o", "r", "e">>, <<"I", "G", "N", "O", "R", "E">>,
      <<"n", "o", "t", "f", "o", "u", "n", "d">>,
      <<"N", "o", "t", "F", "o", "u", "n", "d">>,
      <<"V", "A", "R", "-", "N", "O", "T", "F", "O", "U", "N", "D">>,
      <<"x", "-", "n", "o", "t", "f", "o", "u", "n", "d">>,
      <<"-", "N", "O", "T", "F", "O", "U", "N", "D">>,
      <<"N", "O", "T", "F", "O", "U", "N", "D", "-">>,
      <<"X", "N", "O", "T", "F", "O", "U", "N", "D">>,
      <<"m", "a", "y", "b", "e">>, <<"1", ".", "0">>, <<"1", "e", "3">>,
      <<" ", "1">>, <<"2", " ">>, <<" ", "0">>, <<" ">>, <<"0", "x", "1">>,
      <<"T", "R", "U", "E", " ">>, <<"N", "o", "n", "e">> }

BoolInputs ==
    {Str(s) : s \in Texts(BoolAlphabet, MaxTextLen) \cup SampleTexts}
        \cup {Int_(n) : n \in -1..2} \cup {Int_(10), Int_(-42)}
        \cup {Bool_(b) : b \in BOOLEAN}
        \cup {Float_(1, 0), Float_(0, 0), Float_(-42, 0), Float_(2, 718)}
        \cup {None}

InitBool ==
    /\ cache = <<>>
    /\ \E value \in BoolInputs : call = [op |-> "_cmake_bool", args |-> <<value>>]
    /\ ret = Pending
    /\ heap = NoHeap

CoerceBool ==
    /\ call.op = "_cmake_bool"
    /\ ret.err = "pending"
    /\ ret' = _cmake_bool(call.args[1])
    /\ UNCHANGED <<cache, call, heap>>

NextBool == CoerceBool

SpecBool == InitBool /\ [][NextBool]_vars

\* ------------------------------------------------------------------------
\* Entry construction as a specification of its own: name, value and
\* value_type are drawn at Init and Construct applies CMakeCacheEntry.

ListElements == {Int_(1), Int_(2), Str(<<"A">>), Bool_(TRUE)}

ListInputs ==
    {List_(l) : l \in Texts(ListElements, MaxListLen)}
        \cup {List_(<<Int_(1), Int_(2), Int_(3)>>),
              List_(<<Str(<<"A">>), Str(<<"B">>), Str(<<"C">>)>>)}

ScalarInputs ==
    {Bool_(TRUE), Bool_(FALSE), Int_(0), Int_(1), Int_(42), None,
     Float_(2, 718), Float_(1, 0),
     Str(<<"F", "o", "o">>), Str(<<"o", "n">>), Str(<<"m", "a", "y", "b", "e">>),
     Str(<<>>), Str(<<"V", "A", "L", "U", "E">>),
     Str(<<"X", "-", "N", "O", "T", "F", "O", "U", "N", "D">>)}

NameInputs == {Str(<<"N">>), Str(<<"F", "O", "O">>), Str(<<>>), None, Int_(1)}

TypeInputs ==
    {None, VT_BOOL, VT_FILEPATH, VT_PATH, VT_STRING, VT_INTERNAL,
     Str(<<"B", "O", "O", "L">>), Str(<<"S", "T", "R", "I", "N", "G">>),
     Str(<<"I", "N", "T", "E", "R", "N", "A", "L">>), Str(<<"b", "o", "o", "l">>),
     Str(<<"I", "N", "V", "A", "L", "I", "D", "_", "T", "Y", "P", "E">>)}

\* names given to CMakeValueType.from_name when it is called on its own
TypeNameAlphabet == {"P", "A", "T", "H", "h"}

TypeNameInputs ==
    {Str(s) : s \in Texts(TypeNameAlphabet, MaxNameLen)}
        \cup {Str(__members__[i].v) : i \in 1..Len(__members__)}
        \cup {Str(<<"b", "o", "o", "l">>), Str(<<"B", "o", "o", "l">>),
              Str(<<"B", "O", "O", "L", " ">>), Str(<<"B", "O", "O", "L", "S">>),
              Str(<<"F", "I", "L", "E">>), Str(<<"s", "t", "r", "i", "n", "g">>),
              Str(<<"I", "N", "V", "A", "L", "I", "D", "_", "T", "Y", "P", "E">>)}

InitEntry ==
    /\ cache = <<>>
    /\ \/ \E name \in NameInputs, value \in ScalarInputs \cup ListInputs,
             value_type \in TypeInputs :
               call = [op |-> "CMakeCacheEntry", args |-> <<name, value, value_type>>]
       \/ \E name \in TypeNameInputs : call = [op |-> "from_name", args |-> <<name>>]
    /\ ret = Pending
    /\ heap = NoHeap

Construct ==
    /\ call.op = "CMakeCacheEntry"
    /\ ret.err = "pending"
    /\ ret' = CMakeCacheEntry(call.args[1], call.args[2], call.args[3])
    /\ UNCHANGED <<cache, call, heap>>

Resolve ==
    /\ call.op = "from_name"
    /\ ret.err = "pending"
    /\ ret' = from_name(call.args[1])
    /\ UNCHANGED <<cache, call, heap>>

NextEntry == Construct \/ Resolve

SpecEntry == InitEntry /\ [][NextEntry]_vars

\* ------------------------------------------------------------------------
\* Wrapper equality as a specification of its own: two wrapper objects are
\* drawn at Init and Compare evaluates left == right.

Wrapped(results) == {r.val : r \in {x \in results : x.err = "none"}}

WrapperInputs ==
    Wrapped({_ValueWrapper(v) : v \in ScalarInputs \cup ListInputs})
        \cup Wrapped({_BoolWrapper(v) : v \in ScalarInputs})
        \cup Wrapped({_ListWrapper(v) : v \in ListInputs})

InitWrap ==
    /\ cache = <<>>
    /\ \E left \in WrapperInputs, right \in WrapperInputs :
            call = [op |-> "==", args |-> <<left, right>>]
    /\ ret = Pending
    /\ heap = NoHeap

Compare ==
    /\ call.op = "=="
    /\ ret.err = "pending"
    /\ ret' = Ok(Wrapper_equals(call.args[1], call.args[2]))
    /\ UNCHANGED <<cache, call, heap>>

NextWrap == Compare

SpecWrap == InitWrap /\ [][NextWrap]_vars

\* ------------------------------------------------------------------------
\* Entry equality as a specification of its own: two constructed entries are
\* drawn at Init and CompareEntries evaluates left == right.

EqNames == {Str(<<"N">>), Str(<<"F", "O", "O">>)}

EqValues ==
    {Bool_(TRUE), Bool_(FALSE), Int_(0), Int_(1), Float_(1, 0), None,
     Str(<<"o", "n">>), Str(<<"F", "o", "o">>), Str(<<"1">>),
     List_(<<Int_(1)>>), List_(<<Str(<<"A">>), Str(<<"B">>)>>)}

EqTypes ==
    {None, VT_BOOL, VT_STRING, Str(<<"B", "O", "O", "L">>),
     Str(<<"S", "T", "R", "I", "N", "G">>)}

EntryInputs ==
    Wrapped({CMakeCacheEntry(name, value, value_type) :
                name \in EqNames, value \in EqValues, value_type \in EqTypes})

InitEq ==
    /\ cache = <<>>
    /\ \E left \in EntryInputs, right \in EntryInputs :
            call = [op |-> "__eq__", args |-> <<left, right>>]
    /\ ret = Pending
    /\ heap = NoHeap

CompareEntries ==
    /\ call.op = "__eq__"
    /\ ret.err = "pending"
    /\ ret' = Ok(Entry_equals(call.args[1], call.args[2]))
    /\ UNCHANGED <<cache, call, heap>>

NextEq == CompareEntries

SpecEq == InitEq /\ [][NextEq]_vars

\* ------------------------------------------------------------------------
\* Chained merges as a specification of its own: containers a, b and c are
\* built by set() calls at Init and AddThree evaluates (a + b) + c,
\* a + (b + c), a + CMakeCache() and CMakeCache() + a.

ChainCaches ==
    {BuildCache(ops) :
        ops \in UNION {[1..n -> CacheNames \X OtherSetInputs] : n \in 0..MaxOther}}

\* the entries of self + other
Sum(self, other) == CMakeCache_add(self, CacheObject(other)).ret.val.v

InitChain ==
    /\ cache = <<>>
    /\ \E a \in ChainCaches, b \in ChainCaches, c \in ChainCaches :
            call = [op |-> "__add__", args |-> <<a, b, c>>]
    /\ ret = Pending
    /\ heap = NoHeap

AddThree ==
    /\ call.op = "__add__"
    /\ ret.err = "pending"
    /\ LET a == call.args[1]
           b == call.args[2]
           c == call.args[3]
       IN  ret' = Ok([left |-> Sum(Sum(a, b), c),
                      right |-> Sum(a, Sum(b, c)),
                      a_empty |-> Sum(a, <<>>),
                      empty_a |-> Sum(<<>>, a)])
    /\ UNCHANGED <<cache, call, heap>>

NextChain == AddThree

SpecChain == InitChain /\ [][NextChain]_vars

\* ------------------------------------------------------------------------
\* Merging as a specification of its own: containers a and b are built by
\* set() calls at Init; Add evaluates a + b and keeps the returned object
\* as the result, AddInto runs a += b, and SetResult, UnsetResult and
\* ClearResult call the object the last a + b returned.

LeftNames == {Str(<<"A">>), Str(<<"B">>)}

LeftCaches ==
    {BuildCache(ops) :
        ops \in UNION {[1..n -> LeftNames \X OtherSetInputs] : n \in 0..MaxOther}}

\* the pairs b is built from: a merge operand may hold a boolean entry and an
\* entry whose type was given as the text "BOOL"
RightSetInputs ==
    OtherSetInputs \cup
    { <<Bool_(TRUE), None>>,
      <<Str(<<"o", "n">>), Str(<<"B", "O", "O", "L">>)>>,
      <<Str(<<"V", "A", "L", "U", "E">>), Str(<<"B", "O", "O", "L">>)>> }

RightCaches ==
    {BuildCache(ops) :
        ops \in UNION {[1..n -> OtherNames \X RightSetInputs] : n \in 0..MaxOther}}

ResultSetInputs == { <<Int_(42), None>> }

InitMerge ==
    /\ cache = <<>>
    /\ \E a \in LeftCaches, b \in RightCaches :
            heap = [objs |-> [a |-> a, b |-> b, new_cache |-> <<>>], result |-> "none"]
    /\ call = [op |-> "CMakeCache", args |-> <<>>]
    /\ ret = Ok(None)

Add ==
    LET done == Cache__add__(heap.objs, "a", "b")
    IN  /\ heap' = [objs |-> done.objs, result |-> done.ret]
        /\ call' = [op |-> "__add__", args |-> <<"a", "b">>]
        /\ ret' = Ok(done.ret)
        /\ UNCHANGED cache

AddInto ==
    LET done == Cache__iadd__(heap.objs, "a", "b")
    IN  /\ heap' = [heap EXCEPT !.objs = done.objs]
        /\ call' = [op |-> "__iadd__", args |-> <<"a", "b">>]
        /\ ret' = Ok(done.ret)
        /\ UNCHANGED cache

SetResult ==
    /\ heap.result # "none"
    /\ \E name \in CacheNames, input \in ResultSetInputs :
        LET done == CMakeCache_set(heap.objs[heap.result], name, input[1], input[2])
        IN  /\ heap' = [heap EXCEPT !.objs[heap.result] = done.entries]
            /\ call' = [op |-> "set", args |-> <<heap.result, name, input[1], input[2]>>]
            /\ ret' = done.ret
            /\ UNCHANGED cache

UnsetResult ==
    /\ heap.result # "none"
    /\ \E name \in CacheNames :
        LET done == CMakeCache_unset(heap.objs[heap.result], name)
        IN  /\ heap' = [heap EXCEPT !.objs[heap.result] = done.entries]
            /\ call' = [op |-> "unset", args |-> <<heap.result, name>>]
            /\ ret' = done.ret
            /\ UNCHANGED cache

ClearResult ==
    /\ heap.result # "none"
    /\ LET done == CMakeCache_clear(heap.objs[heap.result])
       IN  /\ heap' = [heap EXCEPT !.objs[heap.result] = done.entries]
           /\ call' = [op |-> "clear", args |-> <<heap.result>>]
           /\ ret' = done.ret
           /\ UNCHANGED cache

NextMerge == Add \/ AddInto \/ SetResult \/ UnsetResult \/ ClearResult

SpecMerge == InitMerge /\ [][NextMerge]_vars

\* ------------------------------------------------------------------------
\* preset_utils._diff_namespaces (preset_utils.py:30-50) as a specification
\* of its own.  A namespace's vars() is a function from the attribute names
\* to a value, Missing for an attribute the namespace does not have; the
\* returned dict has the same shape.

AttrNames == {"jobs", "clean", "verbose"}
AttrValues == {Int_(1), Int_(2), Bool_(TRUE)}

Missing == [k |-> "missing", v |-> <<>>]

Namespaces == [AttrNames -> AttrValues \cup {Missing}]

HasKey(dict, key) == dict[key] # Missing

_diff_namespaces(namespace_a, namespace_b) ==
    LET dict_a == namespace_a
        dict_b == namespace_b
        all_keys == {key \in AttrNames : HasKey(dict_a, key) \/ HasKey(dict_b, key)}
    IN  [key \in AttrNames |->
            IF key \notin all_keys THEN Missing
            ELSE IF HasKey(dict_a, key) /\ HasKey(dict_b, key)
            THEN IF ~PyEq(dict_a[key], dict_b[key]) THEN dict_b[key] ELSE Missing
            ELSE IF HasKey(dict_b, key) THEN dict_b[key]
            ELSE Missing]

InitDiff ==
    /\ cache = <<>>
    /\ \E namespace_a \in Namespaces, namespace_b \in Namespaces :
            call = [op |-> "_diff_namespaces", args |-> <<namespace_a, namespace_b>>]
    /\ ret = Pending
    /\ heap = NoHeap

Diff ==
    /\ call.op = "_diff_namespaces"
    /\ ret.err = "pending"
    /\ ret' = Ok(_diff_namespaces(call.args[1], call.args[2]))
    /\ UNCHANGED <<cache, call, heap>>

NextDiff == Diff

SpecDiff == InitDiff /\ [][NextDiff]_vars

\* ------------------------------------------------------------------------
\* C1

InSeq(x, seq) == \E i \in 1..Len(seq) : seq[i] = x
PosIn(seq, x) == CHOOSE i \in 1..Len(seq) : seq[i] = x

\* the names in iteration order, read through the entries property
EntryNames(entries) ==
    [i \in 1..Len(entries) |-> CMakeCache_entries(entries)[i].name]

SetSucceeded == call.op = "set" /\ ret.err = "none"

\* C1: across any call, names that stay present keep their relative order
\* and every newly inserted name comes after all of them, so iteration order
\* is first-insertion order; set() on a present name replaces the entry with
\* the new value at the same position, and set() on an absent name appends.
C1_InsertionOrder ==
    [][LET before == EntryNames(cache)
           after == EntryNames(cache')
           name == call'.args[1]
       IN  /\ \A i, j \in 1..Len(after) :
                 i < j =>
                   /\ InSeq(after[j], before) => InSeq(after[i], before)
                   /\ (InSeq(after[i], before) /\ InSeq(after[j], before)) =>
                         PosIn(before, after[i]) < PosIn(before, after[j])
           /\ SetSucceeded' =>
                 /\ after = IF InSeq(name, before) THEN before ELSE Append(before, name)
                 /\ LET entry == CMakeCache_entries(cache')[PosIn(after, name)]
                    IN  entry.name = name /\ entry.value_wrapper.value = call'.args[2]
                 /\ \A i \in 1..Len(before) :
                       before[i] # name =>
                          CMakeCache_entries(cache')[i] = CMakeCache_entries(cache)[i]
                 /\ \A i \in 1..Len(after) :
                       CMakeCache_args(cache')[i] = <<"-", "D">> \o
                           Entry__str__(CMakeCache_entries(cache')[i])
      ]_vars

\* A was set again to 42 and is still first of A, B, C
C1_Witness ==
    /\ SetSucceeded
    /\ call.args[1] = Str(<<"A">>) /\ call.args[2] = Int_(42)
    /\ EntryNames(cache) = <<Str(<<"A">>), Str(<<"B">>), Str(<<"C">>)>>
    /\ CMakeCache_entries(cache)[1].value_wrapper.value = Int_(42)

\* ------------------------------------------------------------------------
\* C2

EntryNamed(entries, name) ==
    CMakeCache_entries(entries)[PosIn(EntryNames(entries), name)]

MergeOf(a, b, r) ==
    LET na == EntryNames(a)
        nb == EntryNames(b)
        nr == EntryNames(r)
    IN  /\ {nr[i] : i \in 1..Len(nr)} =
              {na[i] : i \in 1..Len(na)} \cup {nb[i] : i \in 1..Len(nb)}
        /\ Len(nr) = Cardinality({nr[i] : i \in 1..Len(nr)})
        /\ \A i \in 1..Len(nb) : EntryNamed(r, nb[i]) = CMakeCache_entries(b)[i]
        /\ SubSeq(nr, 1, Len(na)) = na
        /\ \A i \in 1..Len(na) :
              ~InSeq(na[i], nb) => CMakeCache_entries(r)[i] = CMakeCache_entries(a)[i]
        /\ SubSeq(nr, Len(na) + 1, Len(nr)) = SelectSeq(nb, LAMBDA n : ~InSeq(n, na))

Merged == call.op \in {"__add__", "__iadd__"} /\ ret.err = "none"

\* C2: a + b and a += b give the union of the names; every name of b
\* carries b's entry; a's names keep their positions (overridden or not) and
\* the names only in b follow in b's order.
C2_Merge ==
    [][Merged' =>
         MergeOf(cache, call'.args[1].v,
                 IF call'.op = "__add__" THEN ret'.val.v ELSE cache')
      ]_vars

\* [A, B] + [B, C] gave [A, B, C] with B's entry taken from the operand
C2_Witness ==
    /\ Merged /\ call.op = "__add__"
    /\ EntryNames(cache) = <<Str(<<"A">>), Str(<<"B">>)>>
    /\ EntryNames(call.args[1].v) = <<Str(<<"B">>), Str(<<"C">>)>>
    /\ EntryNames(ret.val.v) = <<Str(<<"A">>), Str(<<"B">>), Str(<<"C">>)>>
    /\ CMakeCache_entries(ret.val.v)[2] = CMakeCache_entries(call.args[1].v)[1]
    /\ CMakeCache_entries(ret.val.v)[2] # CMakeCache_entries(cache)[2]

\* ------------------------------------------------------------------------
\* C3

RECURSIVE JoinedUpTo(_, _)
JoinedUpTo(items, n) ==
    IF n = 0 THEN <<>>
    ELSE IF n = 1 THEN text_type(items[1])
    ELSE JoinedUpTo(items, n - 1) \o <<";">> \o text_type(items[n])

ClaimedValueText(w) ==
    CASE w.cls = "_BoolWrapper" ->
            IF w.value.v THEN <<"T", "R", "U", "E">> ELSE <<"F", "A", "L", "S", "E">>
      [] w.cls = "_ListWrapper" -> JoinedUpTo(w.value.v, Len(w.value.v))
      [] OTHER -> text_type(w.value)

ClaimedText(entry) ==
    entry.name.v
        \o (IF entry.value_type = None THEN <<"=">>
            ELSE <<":">> \o entry.value_type.v \o <<"=">>)
        \o ClaimedValueText(entry.value_wrapper)

Arg_A_False == <<"-", "D", "A", ":", "B", "O", "O", "L", "=", "F", "A", "L", "S", "E">>
Arg_B_42 == <<"-", "D", "B", "=", "4", "2">>
Arg_B_Foo == <<"-", "D", "B", "=", "F", "o", "o">>
Arg_C_List ==
    <<"-", "D", "C", ":", "S", "T", "R", "I", "N", "G", "=", "A", ";", "B", ";", "C">>

\* C3: args holds one string per entry, in iteration order, each "-D"
\* followed by NAME=VALUE (no type) or NAME:TYPE=VALUE, booleans as
\* TRUE/FALSE and lists joined by ';'.
C3_Args ==
    LET entries == CMakeCache_entries(cache)
        args == CMakeCache_args(cache)
    IN  /\ Len(args) = Len(entries)
        /\ \A i \in 1..Len(entries) : args[i] = <<"-", "D">> \o ClaimedText(entries[i])
        /\ \A i \in 1..Len(entries) :
              /\ (entries[i].name = Str(<<"A">>)
                    /\ entries[i].value_wrapper.value = Bool_(FALSE)) =>
                        args[i] = Arg_A_False
              /\ (entries[i].name = Str(<<"B">>)
                    /\ entries[i].value_wrapper.value = Int_(42)) =>
                        args[i] = Arg_B_42
              /\ (entries[i].name = Str(<<"B">>)
                    /\ entries[i].value_wrapper.value = Str(<<"F", "o", "o">>)) =>
                        args[i] = Arg_B_Foo
              /\ (entries[i].name = Str(<<"C">>)
                    /\ entries[i].value_wrapper.value.k = "list") =>
                        args[i] = Arg_C_List

\* set(A, False); set(B, 42); set(C, [A, B, C]) was rendered
C3_Witness ==
    /\ SetSucceeded
    /\ CMakeCache_args(cache) = <<Arg_A_False, Arg_B_42, Arg_C_List>>

\* ------------------------------------------------------------------------
\* C4

SetFailed == call.op = "set" /\ ret.err # "none"

\* C4: a set() that fails raises ValueError for one of its three reasons
\* and leaves the container as it was: same names, same entries, same order.
C4_FailedSet ==
    [][SetFailed' =>
         /\ cache' = cache
         /\ CMakeCache_entries(cache') = CMakeCache_entries(cache)
         /\ ret'.err = "ValueError"
         /\ ret'.val \in {"Invalid name type", "CMake variable names cannot be empty",
                          "Invalid bool value", "Unknown value type"}
      ]_vars

\* set() of a present name failed with an invalid boolean
C4_Witness ==
    /\ SetFailed
    /\ ret.val = "Invalid bool value"
    /\ CMakeCache_contains(cache, call.args[1])
    /\ Len(cache) = 2

\* ------------------------------------------------------------------------
\* C5

\* C5: unset(name) right after set(name, v) succeeds and leaves the name
\* not contained, get(name, d) returning d, and a second unset(name)
\* failing with KeyError.
C5_UnsetAfterSet ==
    (call.op = "unset" /\ call.afterSet) =>
        /\ ret.err = "none"
        /\ ~CMakeCache_contains(cache, call.args[1])
        /\ ~InSeq(call.args[1], EntryNames(cache))
        /\ \A d \in Defaults : CMakeCache_get(cache, call.args[1], d).ret = Ok(d)
        /\ CMakeCache_unset(cache, call.args[1]).ret.err = "KeyError"
        /\ CMakeCache_unset(cache, call.args[1]).entries = cache

\* B was set and then unset, A is still there
C5_Witness ==
    /\ call.op = "unset" /\ call.afterSet /\ ret.err = "none"
    /\ call.args[1] = Str(<<"B">>)
    /\ EntryNames(cache) = <<Str(<<"A">>)>>

\* ------------------------------------------------------------------------
\* C6

\* The claim's own reading of "parses as a nonzero integer": optional
\* blanks, an optional sign, one or more digits not all of them 0, blanks.
NonzeroIntegerText(t) ==
    \E a \in 0..Len(t), b \in 0..Len(t) :
        /\ a + b < Len(t)
        /\ \A i \in 1..a : t[i] = " "
        /\ \A i \in (Len(t) - b + 1)..Len(t) : t[i] = " "
        /\ t[a + 1] # " " /\ t[Len(t) - b] # " "
        /\ LET first == IF t[a + 1] \in {"+", "-"} THEN a + 2 ELSE a + 1
           IN  /\ first <= Len(t) - b
               /\ \A i \in first..(Len(t) - b) : t[i] \in Range09
               /\ \E i \in first..(Len(t) - b) : t[i] \in Range09 \ {"0"}

TruthyText(t) ==
    \/ t \in {<<"T", "R", "U", "E">>, <<"O", "N">>, <<"Y", "E", "S">>, <<"Y">>}
    \/ NonzeroIntegerText(t)

FalseyText(t) ==
    \/ t = <<>>
    \/ t \in {<<"0">>, <<"F", "A", "L", "S", "E">>, <<"O", "F", "F">>, <<"N", "O">>,
              <<"N">>, <<"I", "G", "N", "O", "R", "E">>,
              <<"N", "O", "T", "F", "O", "U", "N", "D">>}
    \/ \E n \in 0..Len(t) :
           t = SubSeq(t, 1, n) \o <<"-", "N", "O", "T", "F", "O", "U", "N", "D">>

CoercedText == upper(text_type(call.args[1]))

Constructed == call.op = "CMakeCacheEntry" /\ ret.err # "pending"
ArgName == call.args[1]
ArgValue == call.args[2]
ArgType == call.args[3]
ValidName == ArgName.k = "str" /\ ArgName.v # <<>>

IsBoolEntry(entry) ==
    /\ entry.value_wrapper.cls = "_BoolWrapper"
    /\ entry.value_wrapper.value \in {Bool_(TRUE), Bool_(FALSE)}
    /\ entry.value_type = VT_BOOL
    /\ Entry__str__(entry) =
          entry.name.v \o <<":", "B", "O", "O", "L", "=">> \o
            (IF entry.value_wrapper.value.v THEN <<"T", "R", "U", "E">>
             ELSE <<"F", "A", "L", "S", "E">>)

InvalidBoolean == ret.err = "ValueError" /\ ret.val = "Invalid bool value"

\* C7 as claimed: for a valid name and a non-list value, a boolean value or a
\* requested type BOOL (the member or the text "BOOL") gives InvalidBoolean or
\* a Bool entry, and every entry of type BOOL holds a Bool representation.
C7_Original ==
    (Constructed /\ ValidName /\ ArgValue.k # "list") =>
        /\ (ArgValue.k = "bool" \/ ArgType = VT_BOOL
                \/ ArgType = Str(<<"B", "O", "O", "L">>)) =>
              (InvalidBoolean \/ (ret.err = "none" /\ IsBoolEntry(ret.val)))
        /\ (ret.err = "none" /\ ret.val.value_type = VT_BOOL) =>
              ret.val.value_wrapper.cls = "_BoolWrapper"

\* C7 (amended): for a valid name and a non-list value, a boolean value or
\* the registry member BOOL as type gives InvalidBoolean or a Bool entry
\* (strict boolean, type BOOL, text NAME:BOOL=TRUE|FALSE); the text "BOOL"
\* with a non-boolean value gives an entry of type BOOL that keeps the value
\* unvalidated in a Scalar representation.
C7_BoolEntry ==
    (Constructed /\ ValidName /\ ArgValue.k # "list") =>
        /\ (ArgValue.k = "bool" \/ ArgType = VT_BOOL) =>
              (InvalidBoolean \/ (ret.err = "none" /\ IsBoolEntry(ret.val)))
        /\ ArgValue.k = "bool" => ret.err = "none"
        /\ (ArgType = Str(<<"B", "O", "O", "L">>) /\ ArgValue.k # "bool") =>
              /\ ret.err = "none"
              /\ ret.val.value_type = VT_BOOL
              /\ ret.val.value_wrapper = [cls |-> "_ValueWrapper", value |-> ArgValue]
        /\ (ret.err = "none" /\ ret.val.value_wrapper.cls = "_BoolWrapper") =>
              IsBoolEntry(ret.val)

\* the text "on" with the member BOOL became N:BOOL=TRUE
C7_Witness ==
    /\ Constructed /\ ret.err = "none"
    /\ ArgValue = Str(<<"o", "n">>) /\ ArgType = VT_BOOL /\ ArgName = Str(<<"N">>)
    /\ Entry__str__(ret.val) = <<"N", ":", "B", "O", "O", "L", "=", "T", "R", "U", "E">>

\* ------------------------------------------------------------------------
\* C8

\* C8: a list value always gives a List representation of type STRING,
\* whatever type was supplied and without InvalidBoolean or UnknownType, and
\* renders as NAME:STRING= followed by the elements joined by ';'.
C8_ListEntry ==
    (Constructed /\ ValidName /\ ArgValue.k = "list") =>
        /\ ret.err = "none"
        /\ ret.val.value_wrapper = [cls |-> "_ListWrapper", value |-> ArgValue]
        /\ ret.val.value_type = VT_STRING
        /\ Entry__str__(ret.val) =
              ArgName.v \o <<":", "S", "T", "R", "I", "N", "G", "=">>
                \o JoinedUpTo(ArgValue.v, Len(ArgValue.v))
        /\ (ArgName = Str(<<"N">>) /\ ArgValue = List_(<<Int_(1), Int_(2), Int_(3)>>)) =>
              Entry__str__(ret.val) =
                <<"N", ":", "S", "T", "R", "I", "N", "G", "=", "1", ";", "2", ";", "3">>
        /\ (ArgName = Str(<<"N">>) /\ ArgValue = List_(<<>>)) =>
              Entry__str__(ret.val) = <<"N", ":", "S", "T", "R", "I", "N", "G", "=">>

\* a list with an unrecognised type text was built as N:STRING=1;2;3
C8_Witness ==
    /\ Constructed /\ ret.err = "none"
    /\ ArgName = Str(<<"N">>)
    /\ ArgValue = List_(<<Int_(1), Int_(2), Int_(3)>>)
    /\ ArgType = Str(<<"I", "N", "V", "A", "L", "I", "D", "_", "T", "Y", "P", "E">>)
    /\ ret.val.value_type = VT_STRING

\* ------------------------------------------------------------------------
\* C9

\* C9 as claimed: wrappers of different classes never compare equal, in
\* either operand order.
C9_Original ==
    (call.op = "==" /\ ret.err = "none"
        /\ call.args[1].cls # call.args[2].cls) => ret.val = FALSE

\* ------------------------------------------------------------------------
\* C10

ScalarEntry ==
    Constructed /\ ret.err = "none" /\ ret.val.value_wrapper.cls = "_ValueWrapper"

\* C10 as claimed: an untyped entry built from a null value renders as "N=".
C10_Original ==
    (ScalarEntry /\ ArgValue = None /\ ArgType = None) =>
        Entry__str__(ret.val) = ArgName.v \o <<"=">>

\* C10 (amended): a Scalar representation renders as the natural text form
\* of its value (42 -> "42", 2.718 -> "2.718", text as itself), and a null
\* value renders as the text "None", so an untyped entry built from name N
\* and a null value renders as "N=None".
C10_ScalarText ==
    ScalarEntry =>
        /\ ret.val.value_wrapper.value = ArgValue
        /\ Wrapper__str__(ret.val.value_wrapper) =
              (CASE ArgValue = Int_(42) -> <<"4", "2">>
                 [] ArgValue = Float_(2, 718) -> <<"2", ".", "7", "1", "8">>
                 [] ArgValue = None -> <<"N", "o", "n", "e">>
                 [] ArgValue.k = "str" -> ArgValue.v
                 [] OTHER -> text_type(ArgValue))
        /\ ArgType = None =>
              Entry__str__(ret.val) =
                ArgName.v \o <<"=">> \o Wrapper__str__(ret.val.value_wrapper)
        /\ (ArgValue = None /\ ArgType = None /\ ArgName = Str(<<"N">>)) =>
              Entry__str__(ret.val) = <<"N", "=", "N", "o", "n", "e">>

\* an untyped entry was built from name N and a null value
C10_Witness ==
    /\ ScalarEntry
    /\ ArgName = Str(<<"N">>) /\ ArgValue = None /\ ArgType = None

\* ------------------------------------------------------------------------
\* C11

Resolved == call.op = "from_name" /\ ret.err # "pending"

MemberNames ==
    { <<"B", "O", "O", "L">>, <<"F", "I", "L", "E", "P", "A", "T", "H">>,
      <<"P", "A", "T", "H">>, <<"S", "T", "R", "I", "N", "G">>,
      <<"I", "N", "T", "E", "R", "N", "A", "L">> }

FiveMembers == {[k |-> "vtype", v |-> n] : n \in MemberNames}

UnknownType(r) == r.err = "ValueError" /\ r.val = "Unknown value type"

\* the lookup the claim describes, applied to the text `name`
ClaimedLookup(name, r) ==
    IF name \in MemberNames
    THEN r.err = "none" /\ r.val = [k |-> "vtype", v |-> name]
    ELSE UnknownType(r)

\* C11: from_name(name) returns the member whose tag is exactly name (case
\* matters) for BOOL, FILEPATH, PATH, STRING and INTERNAL and raises the
\* unknown-type ValueError for every other text; an entry built from a
\* scalar (non-list, non-boolean) value and a type given as text stores the
\* resolved member, or fails with that same error; every constructed entry
\* has a type that is None or one of the five members.
C11_TypeNames ==
    /\ Resolved => ClaimedLookup(call.args[1].v, ret)
    /\ (Constructed /\ ValidName /\ ArgType.k = "str"
            /\ ArgValue.k \notin {"list", "bool"})
        => /\ ClaimedLookup(ArgType.v, [err |-> ret.err,
                  val |-> IF ret.err = "none" THEN ret.val.value_type ELSE ret.val])
           /\ ret.err = "none" => ret.val.value_wrapper.cls = "_ValueWrapper"
    /\ (Constructed /\ ret.err = "none")
        => ret.val.value_type \in {None} \cup FiveMembers

C11_Witness ==
    /\ Constructed
    /\ ArgValue = Str(<<"V", "A", "L", "U", "E">>)
    /\ ArgType = Str(<<"I", "N", "T", "E", "R", "N", "A", "L">>)
    /\ ret.err = "none"
    /\ ret.val.value_type = VT_INTERNAL

\* ------------------------------------------------------------------------
\* C12

\* C12: a + b returns a new container and leaves a and b with the same
\* entries in the same order; set, unset and clear on the returned container
\* change neither a nor b; a += b changes only a and leaves b as it was.
C12_MergeFrame ==
    [][ /\ call'.op = "__add__"
            => /\ heap'.result \notin {"a", "b"}
               /\ heap'.objs.a = heap.objs.a
               /\ heap'.objs.b = heap.objs.b
        /\ call'.op \in {"set", "unset", "clear"}
            => /\ heap'.objs.a = heap.objs.a
               /\ heap'.objs.b = heap.objs.b
        /\ call'.op = "__iadd__"
            => /\ heap'.objs.b = heap.objs.b
               /\ heap'.objs.new_cache = heap.objs.new_cache
               /\ heap'.result = heap.result ]_vars

\* the returned container was changed after a + b while a and b, both
\* non-empty, are still around
C12_Witness ==
    /\ call.op \in {"set", "unset"}
    /\ ret.err = "none"
    /\ heap.result = "new_cache"
    /\ heap.objs.a # <<>>
    /\ heap.objs.b # <<>>
    /\ ~MergeOf(heap.objs.a, heap.objs.b, heap.objs.new_cache)

\* ------------------------------------------------------------------------
\* C13

\* C13: get(name, default) never fails and never changes the container; it
\* returns the stored entry when name is present and the default it was
\* given (None when the caller gives none) otherwise.
C13_Get ==
    [][call'.op = "get" =>
         /\ cache' = cache
         /\ ret'.err = "none"
         /\ ret'.val = IF InSeq(call'.args[1], EntryNames(cache))
                        THEN EntryNamed(cache, call'.args[1])
                        ELSE call'.args[2]
      ]_vars

\* get() of a name the non-empty container does not hold returned the
\* caller's default
C13_Witness ==
    /\ call.op = "get"
    /\ cache # <<>>
    /\ ~InSeq(call.args[1], EntryNames(cache))
    /\ call.args[2] = Str(<<"d">>)
    /\ ret = Ok(Str(<<"d">>))

\* ------------------------------------------------------------------------
\* C14

WellFormed(entries) ==
    /\ \A i, j \in 1..Len(entries) : entries[i].key = entries[j].key => i = j
    /\ \A i \in 1..Len(entries) :
          /\ entries[i].key = entries[i].val.name
          /\ entries[i].key.k = "str"
          /\ Len(entries[i].key.v) >= 1
    /\ CMakeCache_len(entries) = Len(CMakeCache_entries(entries))
    /\ CMakeCache_len(entries) = Len(CMakeCache_args(entries))
    /\ CMakeCache_len(entries) =
          Cardinality({entries[i].val.name : i \in 1..Len(entries)})

\* C14: in every reachable container, the one a + b returns included, names
\* are unique, each entry is stored under its own name, every stored name is
\* non-empty text, and len() equals the number of entries and of args.
C14_Container ==
    /\ WellFormed(cache)
    /\ (call.op = "__add__" /\ ret.err = "none") => WellFormed(ret.val.v)

\* a merge left three entries in the container
C14_Witness ==
    /\ call.op = "__iadd__"
    /\ ret.err = "none"
    /\ CMakeCache_len(cache) = 3
    /\ call.args[1].v # <<>>

\* ------------------------------------------------------------------------
\* C16

\* C16: unset(name) of a present name removes that entry and nothing else:
\* the entries before it stay where they were and the ones after it move up
\* one place, unchanged; unset of an absent name raises KeyError and leaves
\* the container as it was.
C16_Unset ==
    [][call'.op = "unset" =>
         IF InSeq(call'.args[1], EntryNames(cache))
         THEN LET p == PosIn(EntryNames(cache), call'.args[1])
              IN  /\ ret'.err = "none"
                  /\ Len(cache') = Len(cache) - 1
                  /\ \A i \in 1..(p - 1) : cache'[i] = cache[i]
                  /\ \A i \in p..Len(cache') : cache'[i] = cache[i + 1]
         ELSE /\ ret'.err = "KeyError"
              /\ cache' = cache
      ]_vars

\* B was removed from between A and C
C16_Witness ==
    /\ call.op = "unset"
    /\ ret.err = "none"
    /\ call.args[1] = Str(<<"B">>)
    /\ EntryNames(cache) = <<Str(<<"A">>), Str(<<"C">>)>>

\* ------------------------------------------------------------------------
\* C15

\* for e in items: a.set(e.name, e.value, e.value_type), stopping at the
\* first call that raises
RECURSIVE ReplaySets(_, _)
ReplaySets(entries, items) ==
    IF items = <<>> THEN [ret |-> Ok(None), entries |-> entries]
    ELSE LET e == Head(items)
             done == CMakeCache_set(entries, Entry_name(e), Entry_value(e),
                                    Entry_value_type(e))
         IN  IF done.ret.err # "none" THEN done
             ELSE ReplaySets(done.entries, Tail(items))

Replayed == ReplaySets(heap.objs.a, CMakeCache_entries(heap.objs.b))

\* an entry of type BOOL whose value was not coerced: it was built from the
\* type text "BOOL" and a non-boolean value
UncoercedBool(e) ==
    Entry_value_type(e) = VT_BOOL /\ e.value_wrapper.cls = "_ValueWrapper"

NoUncoercedBool(entries) ==
    \A i \in 1..Len(entries) : ~UncoercedBool(CMakeCache_entries(entries)[i])

\* The claim as written: a += b leaves a as the set() calls replaying b's
\* entries in order would, and none of those calls fails.
C15_Original ==
    [][call'.op = "__iadd__" =>
         /\ Replayed.ret.err = "none"
         /\ heap'.objs.a = Replayed.entries
      ]_vars

\* C15: a += b stores b's entries themselves.  When no entry of b is an
\* uncoerced BOOL entry this is what a.set(e.name, e.value, e.value_type)
\* for each entry e of b, in b's order, leaves in a, and none of those calls
\* fails.  When b holds an uncoerced BOOL entry the replayed calls differ:
\* set() coerces the value, so a call fails with the invalid-boolean
\* ValueError or stores a Bool entry where a += b keeps the Scalar one.
C15_MergeIntoAsSets ==
    [][call'.op = "__iadd__" =>
         /\ MergeOf(heap.objs.a, heap.objs.b, heap'.objs.a)
         /\ IF NoUncoercedBool(heap.objs.b)
            THEN /\ Replayed.ret.err = "none"
                 /\ heap'.objs.a = Replayed.entries
            ELSE \/ /\ Replayed.ret.err = "ValueError"
                    /\ Replayed.ret.val = "Invalid bool value"
                 \/ /\ Replayed.ret.err = "none"
                    /\ heap'.objs.a # Replayed.entries
      ]_vars

\* a += b overrode an entry of a and appended a boolean entry of b
C15_Witness ==
    /\ call.op = "__iadd__"
    /\ NoUncoercedBool(heap.objs.b)
    /\ Len(heap.objs.b) = 2
    /\ Len(heap.objs.a) = 3
    /\ \E i \in 1..2 : heap.objs.b[i].val.value_wrapper.cls = "_BoolWrapper"
    /\ heap.objs.a[2] = heap.objs.b[1]

\* ------------------------------------------------------------------------
\* C17

\* _cmake_bool consulting the falsey table before the truthy one
FalseyFirst(value) ==
    IF _is_falsey(value) THEN Ok(FALSE)
    ELSE IF _is_truthy(value) THEN Ok(TRUE)
    ELSE Raise("ValueError", "Invalid bool value")

\* C17: no input is both truthy and falsey, so _cmake_bool answers the same
\* whichever table it consults first.
C17_Disjoint ==
    call.op = "_cmake_bool" =>
        /\ ~(_is_truthy(call.args[1]) /\ _is_falsey(call.args[1]))
        /\ ret.err # "pending" =>
              /\ ret.err = FalseyFirst(call.args[1]).err
              /\ ret.val = FalseyFirst(call.args[1]).val

\* "0" parses as an integer and sits in the falsey table: it was coerced to
\* false
C17_Witness ==
    /\ call.op = "_cmake_bool"
    /\ call.args[1] = Str(<<"0">>)
    /\ py_int(CoercedText).err = "none"
    /\ _is_falsey(call.args[1])
    /\ ret.err = "none" /\ ret.val = FALSE

\* ------------------------------------------------------------------------
\* C18

\* C18: two constructed entries that compare equal have the same text form,
\* hence the same -D argument.
C18_Original ==
    (call.op = "__eq__" /\ ret.err = "none" /\ ret.val)
        => Entry__str__(call.args[1]) = Entry__str__(call.args[2])

\* ------------------------------------------------------------------------
\* C19

Chained == call.op = "__add__" /\ Len(call.args) = 3 /\ ret.err = "none"

\* C19: (a + b) + c and a + (b + c) hold the same entries in the same
\* order, and a + CMakeCache() and CMakeCache() + a both equal a.
C19_Monoid ==
    Chained =>
        /\ ret.val.left = ret.val.right
        /\ ret.val.a_empty = call.args[1]
        /\ ret.val.empty_a = call.args[1]

\* a = [A, B], b = [B, A] with other values, c = [C, A]: positions come from
\* a, then c's new name; A's value comes from c, B's from b
C19_Witness ==
    /\ Chained
    /\ EntryNames(call.args[1]) = <<Str(<<"A">>), Str(<<"B">>)>>
    /\ EntryNames(call.args[2]) = <<Str(<<"B">>), Str(<<"A">>)>>
    /\ EntryNames(call.args[3]) = <<Str(<<"C">>), Str(<<"A">>)>>
    /\ EntryNames(ret.val.left) = <<Str(<<"A">>), Str(<<"B">>), Str(<<"C">>)>>
    /\ EntryNamed(ret.val.left, Str(<<"A">>)) = EntryNamed(call.args[3], Str(<<"A">>))
    /\ EntryNamed(ret.val.left, Str(<<"A">>)) # EntryNamed(call.args[1], Str(<<"A">>))
    /\ EntryNamed(ret.val.left, Str(<<"B">>)) = EntryNamed(call.args[2], Str(<<"B">>))
    /\ EntryNamed(ret.val.left, Str(<<"B">>)) # EntryNamed(call.args[1], Str(<<"B">>))

\* ------------------------------------------------------------------------
\* C20

\* a - b as the claim words it: the attributes of a that b lacks or holds
\* with another value, with a's values
ClaimedDiff(a, b) ==
    [key \in AttrNames |->
        IF HasKey(a, key) /\ (~HasKey(b, key) \/ ~PyEq(a[key], b[key]))
        THEN a[key] ELSE Missing]

\* C20: _diff_namespaces(namespace_a, namespace_b) returns exactly the
\* attributes of a that are missing from b or differ in b, mapped to a's
\* values.
C20_Original ==
    (call.op = "_diff_namespaces" /\ ret.err = "none")
        => ret.val = ClaimedDiff(call.args[1], call.args[2])

====
